---- MODULE Spec2Model ----
(***************************************************************************)
(* Acts::SurfaceArrayCreator (Core/src/Tools/SurfaceArrayCreator.cpp).     *)
(*                                                                         *)
(* One construction call is modelled as a sequence of stages: the set-up   *)
(* of the bin utility and the grid with the prefill loop, completeBinning, *)
(* and registerNeighbourHood with the return of the array.                 *)
(*                                                                         *)
(* Geometry is exact integer geometry.  A binning position is a lattice    *)
(* point (x, y, z).  The phi axis always spans [-pi, pi) with 1, 2 or 4    *)
(* bins, so a phi bin is decided by the signs of x and y.  Radii are       *)
(* given in a unit of sqrt(RadialUnitSq(binsPhi)) so that R*cos(phi) and   *)
(* R*sin(phi) of every bin center are integers.  Distances are compared    *)
(* through their squares (the square root is monotone).                    *)
(***************************************************************************)
EXTENDS Integers, Sequences, FiniteSets

\* ------------------------------------------------------------------ bounds
\* Largest number of surfaces handed to one construction call.
MaxSurfaces == 3

\* nullptr, for a surface slot of the grid and for an associated element.
Null == 0

\* ------------------------------------------------------------------ inputs
\* Detector elements.  Element identities are interchangeable, so the
\* surface number i is associated with no element, with an element of its
\* own (element i) or with the element that several surfaces share.
SharedElement == MaxSurfaces + 1
Elements == 1..SharedElement
ElementChoices(i) == {Null, i, SharedElement}

\* Binning positions the input surfaces are drawn from.  The last one lies
\* at phi = pi and below -halfZ: it wraps on the phi axis and is clamped on
\* the z axis.
Positions ==
  { [x |-> 1,  y |-> 1,  z |-> 0],
    [x |-> 1,  y |-> -1, z |-> 0],
    [x |-> -1, y |-> 1,  z |-> 2],
    [x |-> -2, y |-> 0,  z |-> -3] }

\* The surface vectors a caller may pass: surfaces[i] is surface number i,
\* with its binning position and its associated detector element.
SurfaceLists ==
  UNION { { [i \in 1..n |-> [pos |-> ps[i], elem |-> es[i]]] :
              ps \in [1..n -> Positions],
              es \in { e \in [1..n -> Elements \cup {Null}] :
                         \A i \in 1..n : e[i] \in ElementChoices(i) } } :
          n \in 0..MaxSurfaces }

\* Bin counts of the closed phi axis and of the open axis (z or r).
PhiBinCounts == {1, 2, 4}
OpenBinCounts == {1, 2, 3}

\* Cylinder radii, in radial units.
Radii == {1}

\* Square of the unit the radii are given in (see the module comment).
RadialUnitSq(binsPhi) == IF binsPhi = 4 THEN 2 ELSE 1

VARIABLES
  pc,            \* position of the construction call
  layout,        \* "none", "cylinder", "disc", "plane"
  surfaces,      \* the input surface vector
  arrayUtility,  \* the BinUtility: <<axis 0, axis 1>>
  v3Matrix,      \* bin center positions, by <<i1, i0>>
  sGrid,         \* the surface grid sGrid[0], by <<i1, i0>>
  nDist,         \* number of testPath computations of completeBinning
  neighbours,    \* per element: the neighbour list last registered
  regCalls,      \* the registerNeighbours calls made, in order
  result         \* "none", "array" or "nullptr"

vars == <<pc, layout, surfaces, arrayUtility, v3Matrix, sGrid, nDist,
          neighbours, regCalls, result>>

\* ------------------------------------------------------------ bin utility
\* BinUtility(bins, min, max, option, value): one axis.
BinningData(bins, option, value, unitSq) ==
  [bins |-> bins, option |-> option, value |-> value, unitSq |-> unitSq]

\* floor((atan2(y, x) + pi) / (pi/2)): 0..3, and 4 for phi = pi.
Quarter(x, y) ==
  IF y < 0 THEN (IF x < 0 THEN 0 ELSE 1)
  ELSE IF y = 0 THEN (IF x < 0 THEN 4 ELSE 2)
  ELSE (IF x > 0 THEN 2 ELSE 3)

\* floor((value - min) / step) of a position along one axis.
\*   binPhi: [-pi, pi) in bd.bins bins;
\*   binZ:   [-halfZ, halfZ) with halfZ = bd.bins, step 2;
\*   binR:   [0, 2 * bd.bins) radial units, step 2 radial units.
RawBin(bd, p) ==
  CASE bd.value = "binPhi" -> Quarter(p.x, p.y) \div (4 \div bd.bins)
    [] bd.value = "binZ"   -> (p.z + bd.bins) \div 2
    [] bd.value = "binR"   ->
         Cardinality({ k \in 1..bd.bins :
                         4 * k * k * bd.unitSq <= p.x * p.x + p.y * p.y })

\* BinningData::searchGlobal: closed wraps, open clamps to the edge bins.
SearchBin(bd, p) ==
  LET raw == RawBin(bd, p) IN
  IF bd.option = "closed"
  THEN IF raw < 0 THEN bd.bins - 1
       ELSE IF raw > bd.bins - 1 THEN 0 ELSE raw
  ELSE IF raw < 0 THEN 0
       ELSE IF raw > bd.bins - 1 THEN bd.bins - 1 ELSE raw

\* BinUtility::binTriple: the bin of each axis; the third axis is unused.
binTriple(util, p) == <<SearchBin(util[1], p), SearchBin(util[2], p), 0>>

\* (cos, sin) of centerValue(iphi) of the phi axis, in radial units.
PhiCenterDir(binsPhi, iphi) ==
  CASE binsPhi = 1 -> [x |-> 1, y |-> 0]
    [] binsPhi = 2 -> IF iphi = 0 THEN [x |-> 0, y |-> -1]
                      ELSE [x |-> 0, y |-> 1]
    [] binsPhi = 4 ->
         CASE iphi = 0 -> [x |-> -1, y |-> -1]
           [] iphi = 1 -> [x |-> 1,  y |-> -1]
           [] iphi = 2 -> [x |-> 1,  y |-> 1]
           [] iphi = 3 -> [x |-> -1, y |-> 1]

\* centerValue(i) of the z axis and of the r axis (radial units).
ZCenterValue(binsZ, iz) == 2 * iz + 1 - binsZ
RCenterValue(ir) == 2 * ir + 1

\* BinningData::neighbourRange: the bins within +-1 of bin, each once.
neighbourRange(bd, bin) ==
  LET lo == IF bd.option = "closed" THEN (bin + bd.bins - 1) % bd.bins
            ELSE bin - 1
      hi == IF bd.option = "closed" THEN (bin + 1) % bd.bins
            ELSE bin + 1
      lows  == IF lo >= 0 /\ lo # bin THEN <<lo>> ELSE <<>>
      highs == IF hi <= bd.bins - 1 /\ hi # bin /\ hi # lo THEN <<hi>> ELSE <<>>
  IN lows \o <<bin>> \o highs

\* ------------------------------------------------------------------- grid
Cells(util) == (0..(util[2].bins - 1)) \X (0..(util[1].bins - 1))

\* The cells in the order of the loops: io1 outer, io0 inner.
CellSeq(util) ==
  [k \in 1..(util[2].bins * util[1].bins) |->
     <<(k - 1) \div util[1].bins, (k - 1) % util[1].bins>>]

\* SurfaceGrid sGrid(1, SurfaceMatrix(n1, SurfaceVector(n0, nullptr)))
EmptyGrid(util) == [c \in Cells(util) |-> Null]

\* Variant of FillCell that keeps the first surface placed in a cell.
FillCellKeepFirst(grid, bTriple, sf) ==
  IF grid[<<bTriple[2], bTriple[1]>>] = Null
  THEN [grid EXCEPT ![<<bTriple[2], bTriple[1]>>] = sf]
  ELSE grid

\* sGrid[bTriple[2]][bTriple[1]][bTriple[0]] = sf.  The triple is indexed
\* from 1 here, so the cell <<i1, i0>> is <<bTriple[2], bTriple[1]>> and the
\* leading index bTriple[3] = 0 selects the only matrix of the grid.
FillCell(grid, bTriple, sf) ==
  [grid EXCEPT ![<<bTriple[2], bTriple[1]>>] = sf]

\* The prefill loop over surfaces[i..]: later surfaces overwrite.
RECURSIVE PrefillFrom(_, _, _, _)
PrefillFrom(util, sv, i, grid) ==
  IF i > Len(sv) THEN grid
  ELSE PrefillFrom(util, sv, i + 1,
                   FillCell(grid, binTriple(util, sv[i].pos), i))

\* ------------------------------------------------------------ bin centers
\* A bin center (x, y, zNum / zDen): the disc's z is a mean, kept as the
\* fraction it is computed from.
\* v3Matrix[iz][iphi] = Vector3D(R * cos(phi), R * sin(phi), z)
CylinderCenters(util, R) ==
  [c \in Cells(util) |->
     LET dir == PhiCenterDir(util[1].bins, c[2]) IN
     [x |-> R * dir.x, y |-> R * dir.y,
      zNum |-> ZCenterValue(util[2].bins, c[1]), zDen |-> 1]]

\* v3Matrix[iphi][ir] = Vector3D(R * cos(phi), R * sin(phi), z), z = zSum / n
DiscCenters(util, zSum, n) ==
  [c \in Cells(util) |->
     LET dir == PhiCenterDir(util[2].bins, c[1]) IN
     [x |-> RCenterValue(c[2]) * dir.x, y |-> RCenterValue(c[2]) * dir.y,
      zNum |-> zSum, zDen |-> n]]

\* z += bPosition.z() over the surfaces
RECURSIVE SumZ(_, _)
SumZ(sv, i) == IF i > Len(sv) THEN 0 ELSE sv[i].pos.z + SumZ(sv, i + 1)

\* ((sposition - sf->binningPosition(binR)).mag())^2, times zDen^2
PathSq(sposition, p) ==
  sposition.zDen * sposition.zDen *
      ((sposition.x - p.x) * (sposition.x - p.x)
       + (sposition.y - p.y) * (sposition.y - p.y))
  + (sposition.zNum - sposition.zDen * p.z)
      * (sposition.zNum - sposition.zDen * p.z)

\* minPath = 10e10.  Its square is beyond the integers of the checker; any
\* value above every PathSq of the bounded positions behaves the same.
MinPathInit == 2000000000

\* ---------------------------------------------------------- completeBinning
\* Variant of IsCloser that lets a later surface at equal distance win.
IsCloserOrEqual(testPath, minPath) == testPath <= minPath

\* if (testPath < minPath)
IsCloser(testPath, minPath) == testPath < minPath

\* Variant of NothingToDo without the bail-out.
NeverNothingToDo(nGridPoints, nSurfaces) == FALSE

\* if (nGridPoints == nSurfaces) return;
NothingToDo(nGridPoints, nSurfaces) == nGridPoints = nSurfaces

\* for (auto& sf : sVector) {...}: the entry of one cell after the scan of
\* surfaces i.. with the running minimum minPath.
RECURSIVE ScanSurfaces(_, _, _, _, _)
ScanSurfaces(sposition, sv, i, entry, minPath) ==
  IF i > Len(sv) THEN entry
  ELSE LET testPath == PathSq(sposition, sv[i].pos) IN
       IF IsCloser(testPath, minPath)
       THEN ScanSurfaces(sposition, sv, i + 1, i, testPath)
       ELSE ScanSurfaces(sposition, sv, i + 1, entry, minPath)

\* v3Matrix.size() * v3Matrix[0].size()
GridPoints(v3) == Cardinality(DOMAIN v3)

\* The grid completeBinning leaves.
completeBinning(v3, sv, grid) ==
  IF NothingToDo(GridPoints(v3), Len(sv)) THEN grid
  ELSE [c \in DOMAIN grid |->
          ScanSurfaces(v3[c], sv, 1, grid[c], MinPathInit)]

\* The number of testPath computations completeBinning makes.
DistanceComputations(v3, sv) ==
  IF NothingToDo(GridPoints(v3), Len(sv)) THEN 0
  ELSE GridPoints(v3) * Len(sv)

\* ---------------------------------------------------- registerNeighbourHood
\* The cells of the box around <<i1, i0>>, in the order they are visited.
ClusterCells(util, cell) ==
  LET r1 == neighbourRange(util[2], cell[1])
      r0 == neighbourRange(util[1], cell[2])
  IN [k \in 1..(Len(r1) * Len(r0)) |->
        <<r1[((k - 1) \div Len(r0)) + 1], r0[((k - 1) % Len(r0)) + 1]>>]

\* BinnedArrayXD::objectCluster: the occupied objects of the box.
IsObject(s) == s # Null
objectCluster(util, grid, cell) ==
  LET cs == ClusterCells(util, cell) IN
  SelectSeq([k \in 1..Len(cs) |-> grid[cs[k]]], IsObject)

\* if (nSurface && nSurface != bSurface
\*     && nSurface->associatedDetectorElement())
IsNeighbour(sv, bSurface, nSurface) ==
  nSurface # Null /\ nSurface # bSurface /\ sv[nSurface].elem # Null

\* The registerNeighbours calls made for one cell: one per object of the
\* cluster, each with a vector created inside the loop over the cluster.
CellCalls(util, sv, grid, cell) ==
  LET bSurface == grid[cell] IN
  IF bSurface # Null /\ sv[bSurface].elem # Null
  THEN LET objs == objectCluster(util, grid, cell) IN
       [k \in 1..Len(objs) |->
          [cell |-> cell,
           bSurface |-> bSurface,
           bElement |-> sv[bSurface].elem,
           nSurface |-> objs[k],
           neighbourElements |->
             IF IsNeighbour(sv, bSurface, objs[k])
             THEN <<sv[objs[k]].elem>> ELSE <<>>]]
  ELSE <<>>

\* All calls of the walk over the grid, cells k.. of the loop order.
RECURSIVE CallsFrom(_, _, _, _)
CallsFrom(util, sv, grid, k) ==
  IF k > Len(CellSeq(util)) THEN <<>>
  ELSE CellCalls(util, sv, grid, CellSeq(util)[k])
         \o CallsFrom(util, sv, grid, k + 1)

\* DetectorElementBase::registerNeighbours: the list replaces the field.
RECURSIVE ApplyCalls(_, _, _)
ApplyCalls(nb, calls, k) ==
  IF k > Len(calls) THEN nb
  ELSE ApplyCalls([nb EXCEPT ![calls[k].bElement] = calls[k].neighbourElements],
                  calls, k + 1)

\* ------------------------------------------------------------- bin utility
\* Variant of CylinderUtility with an open phi axis.
OpenPhiCylinderUtility(binsPhi, binsZ) ==
  << BinningData(binsPhi, "open", "binPhi", 1),
     BinningData(binsZ, "open", "binZ", 1) >>

\* BinUtility(binsPhi, minPhi, maxPhi, closed, binPhi, transform)
\*   += BinUtility(binsZ, -halfZ, halfZ, open, binZ)
CylinderUtility(binsPhi, binsZ) ==
  << BinningData(binsPhi, "closed", "binPhi", 1),
     BinningData(binsZ, "open", "binZ", 1) >>

\* binsR == 1: BinUtility(BinningData(binR, minR, maxR), transform), else
\* BinUtility(binsR, minR, maxR, open, binR, transform);
\*   += BinUtility(binsPhi, minPhi, maxPhi, closed, binPhi)
DiscUtility(binsR, binsPhi) ==
  << (IF binsR = 1
      THEN BinningData(1, "open", "binR", RadialUnitSq(binsPhi))
      ELSE BinningData(binsR, "open", "binR", RadialUnitSq(binsPhi))),
     BinningData(binsPhi, "closed", "binPhi", 1) >>

\* ----------------------------------------------------------------- actions
Init ==
  /\ pc = "idle"
  /\ layout = "none"
  /\ surfaces = <<>>
  /\ arrayUtility = <<>>
  /\ v3Matrix = <<>>
  /\ sGrid = <<>>
  /\ nDist = 0
  /\ neighbours = [e \in Elements |-> <<>>]
  /\ regCalls = <<>>
  /\ result = "none"

\* surfaceArrayOnCylinder up to its call of completeBinning: the bin
\* utility, the position matrix and the prefill loop on the empty grid.
SurfaceArrayOnCylinder ==
  /\ pc = "idle"
  /\ \E sv \in SurfaceLists, binsPhi \in PhiBinCounts,
        binsZ \in OpenBinCounts, R \in Radii :
       LET util == CylinderUtility(binsPhi, binsZ) IN
       /\ surfaces' = sv
       /\ arrayUtility' = util
       /\ v3Matrix' = CylinderCenters(util, R)
       /\ sGrid' = PrefillFrom(util, sv, 1, EmptyGrid(util))
  /\ layout' = "cylinder"
  /\ pc' = "complete"
  /\ UNCHANGED <<nDist, neighbours, regCalls, result>>

\* surfaceArrayOnDisc up to its call of completeBinning: the bin utility,
\* the prefill loop on the empty grid with the z sum, the average
\* z /= surfaces.size() (0 / 0 for no surface) and the position matrix.
SurfaceArrayOnDisc ==
  /\ pc = "idle"
  /\ \E sv \in SurfaceLists, binsR \in OpenBinCounts,
        binsPhi \in PhiBinCounts :
       LET util == DiscUtility(binsR, binsPhi) IN
       /\ surfaces' = sv
       /\ arrayUtility' = util
       /\ sGrid' = PrefillFrom(util, sv, 1, EmptyGrid(util))
       /\ v3Matrix' = DiscCenters(util, SumZ(sv, 1), Len(sv))
  /\ layout' = "disc"
  /\ pc' = "complete"
  /\ UNCHANGED <<nDist, neighbours, regCalls, result>>

\* completeBinning(*arrayUtility, v3Matrix, surfaces, sGrid)
CompleteBinning ==
  /\ pc = "complete"
  /\ sGrid' = completeBinning(v3Matrix, surfaces, sGrid)
  /\ nDist' = DistanceComputations(v3Matrix, surfaces)
  /\ pc' = "register"
  /\ UNCHANGED <<layout, surfaces, arrayUtility, v3Matrix, neighbours,
                 regCalls, result>>

\* The array is made of the grid, registerNeighbourHood(*sArray) walks it,
\* and the array is returned.
RegisterNeighbourHood ==
  /\ pc = "register"
  /\ regCalls' = CallsFrom(arrayUtility, surfaces, sGrid, 1)
  /\ neighbours' = ApplyCalls(neighbours, regCalls', 1)
  /\ result' = "array"
  /\ pc' = "done"
  /\ UNCHANGED <<layout, surfaces, arrayUtility, v3Matrix, sGrid, nDist>>

\* surfaceArrayOnPlane: return nullptr
SurfaceArrayOnPlane ==
  /\ pc = "idle"
  /\ layout' = "plane"
  /\ result' = "nullptr"
  /\ pc' = "done"
  /\ UNCHANGED <<surfaces, arrayUtility, v3Matrix, sGrid, nDist,
                 neighbours, regCalls>>

Next ==
  \/ SurfaceArrayOnCylinder
  \/ SurfaceArrayOnDisc
  \/ CompleteBinning
  \/ RegisterNeighbourHood
  \/ SurfaceArrayOnPlane

Spec == Init /\ [][Next]_vars

\* ------------------------------------------------------ notions of claims
Range(f) == { f[k] : k \in DOMAIN f }

\* The construction has built a grid (cylinder or disc layout).
HasGrid == layout \in {"cylinder", "disc"}

\* completeBinning has run.
Completed == HasGrid /\ pc \in {"register", "done"}

\* registerNeighbourHood has finished.
Registered == HasGrid /\ pc = "done"

\* Rows x columns of the center-position matrix, from the bin counts.
NumBins == arrayUtility[1].bins * arrayUtility[2].bins

\* The input surfaces whose binning position maps to cell c.
MappedTo(c) ==
  { i \in 1..Len(surfaces) :
      binTriple(arrayUtility, surfaces[i].pos) = <<c[2], c[1], 0>> }

\* The last of them in input order, or no surface.
LastMapped(c) ==
  IF MappedTo(c) = {} THEN Null
  ELSE CHOOSE i \in MappedTo(c) : \A j \in MappedTo(c) : j <= i

\* The input surfaces at minimum distance from the center of cell c.
Nearest(c) ==
  { i \in 1..Len(surfaces) :
      \A j \in 1..Len(surfaces) :
        PathSq(v3Matrix[c], surfaces[i].pos)
          <= PathSq(v3Matrix[c], surfaces[j].pos) }

\* The first of them in input order.
NearestFirst(c) == CHOOSE i \in Nearest(c) : \A j \in Nearest(c) : i <= j

\* Cell c holds a surface with an associated element: the walk of
\* registerNeighbourHood registers neighbours for it.
Examined(c) == sGrid[c] # Null /\ surfaces[sGrid[c]].elem # Null

\* The surfaces the walk looked at as candidates for cell c.
Candidates(c) ==
  { regCalls[k].nSurface : k \in { n \in DOMAIN regCalls : regCalls[n].cell = c } }

\* The number of registerNeighbours calls made on element e.
CallsOn(e) == Cardinality({ k \in DOMAIN regCalls : regCalls[k].bElement = e })

\* Index of a cell along the phi axis and along the open axis (z or r).
PhiIdx(c) == IF layout = "cylinder" THEN c[2] ELSE c[1]
OpenIdx(c) == IF layout = "cylinder" THEN c[1] ELSE c[2]
NPhi == IF layout = "cylinder" THEN arrayUtility[1].bins ELSE arrayUtility[2].bins
NOpen == IF layout = "cylinder" THEN arrayUtility[2].bins ELSE arrayUtility[1].bins
Within1(a, b) == a - b \in {-1, 0, 1}

\* ------------------------------------------------------------------ claims
\* C1: once completeBinning has run, every cell of the grid of a cylinder
\* or disc construction holds a non-null surface.
C1_GridCoverage ==
  Completed => \A c \in DOMAIN sGrid : sGrid[c] # Null

\* C2: after registerNeighbourHood, for every cell whose surface has an
\* element, the list last registered on that element contains the element
\* of every other surface with an element in the box of that cell.
C2_NeighbourListComplete ==
  Registered =>
    \A c \in DOMAIN sGrid :
      Examined(c) =>
        \A s \in Range(objectCluster(arrayUtility, sGrid, c)) :
          IsNeighbour(surfaces, sGrid[c], s) =>
            surfaces[s].elem \in Range(neighbours[surfaces[sGrid[c]].elem])

\* C3: no list passed to registerNeighbours contains the element it is
\* registered on.
C3_NoSelfNeighbour ==
  \A k \in DOMAIN regCalls :
    regCalls[k].bElement \notin Range(regCalls[k].neighbourElements)

\* C4: on the slow path of completeBinning every cell that was empty after
\* placement gets the input surface at minimum distance from the cell
\* center, the first in input order among equals.
C4_NearestFill ==
  [][ (pc = "complete" /\ pc' = "register" /\ surfaces # <<>>
       /\ NumBins # Len(surfaces))
      => \A c \in DOMAIN sGrid :
           sGrid[c] = Null => sGrid'[c] = NearestFirst(c) ]_vars

\* C4 witness: the slow path filled an empty cell for which two surfaces
\* tie at the minimum distance, with the earlier one.
C4_Witness ==
  /\ Completed
  /\ nDist > 0
  /\ \E c \in DOMAIN sGrid :
       /\ MappedTo(c) = {}
       /\ Cardinality(Nearest(c)) >= 2
       /\ Cardinality(Nearest(c)) < Len(surfaces)
       /\ \E i, j \in Nearest(c) : surfaces[i].pos # surfaces[j].pos
       /\ sGrid[c] = NearestFirst(c)

\* C5: registerNeighbours is invoked exactly once on every element
\* reachable from a surface of the grid.
C5_WriteOnce ==
  Registered =>
    \A c \in DOMAIN sGrid :
      Examined(c) => CallsOn(surfaces[sGrid[c]].elem) = 1

\* C6: surfaceArrayOnDisc with an empty surface list returns no array and
\* writes no neighbour field.
C6_EmptyDiscRejected ==
  (layout = "disc" /\ surfaces = <<>>) =>
    (result # "array" /\ regCalls = <<>>)

\* C7: right after the placement loop each cell holds the last surface in
\* input order whose binning position maps to it, and null if there is
\* none.
C7_PlacementLastWins ==
  (HasGrid /\ pc = "complete") =>
    \A c \in DOMAIN sGrid : sGrid[c] = LastMapped(c)

\* C7 witness: after placement two surfaces map to one cell, which holds
\* the later one, and another cell is empty.
C7_Witness ==
  /\ HasGrid
  /\ pc = "complete"
  /\ \E c \in DOMAIN sGrid :
       Cardinality(MappedTo(c)) >= 2 /\ sGrid[c] = LastMapped(c)
  /\ \E c \in DOMAIN sGrid : MappedTo(c) = {} /\ sGrid[c] = Null

\* C8: completeBinning leaves every cell that holds a surface as it is.
C8_CompletionOnlyFills ==
  [][ (pc = "complete" /\ pc' = "register")
      => \A c \in DOMAIN sGrid : sGrid[c] # Null => sGrid'[c] = sGrid[c] ]_vars

\* C9: when the number of grid cells equals the number of surfaces,
\* completeBinning computes no distance and changes no cell.
C9_FastPathNoOp ==
  [][ (pc = "complete" /\ pc' = "register" /\ NumBins = Len(surfaces))
      => (nDist' = 0 /\ sGrid' = sGrid) ]_vars

\* C9 witness: the fast path was taken on a grid with a collision, and
\* the cell left empty by placement is still empty.
C9_Witness ==
  /\ Completed
  /\ NumBins = Len(surfaces)
  /\ nDist = 0
  /\ \E c \in DOMAIN sGrid : sGrid[c] = Null
  /\ \E c \in DOMAIN sGrid : sGrid[c] # Null

\* C10: the candidates of a cell at phi index 0 include the surfaces of the
\* cells at phi index N-1 within one bin on the other axis, and the other
\* way round; every candidate sits in a cell within one bin on the open
\* axis, so its first and last bin are not adjacent.
C10_PeriodicWrap ==
  Registered =>
    \A c \in DOMAIN sGrid :
      Examined(c) =>
        /\ \A d \in DOMAIN sGrid :
             ( /\ {PhiIdx(c), PhiIdx(d)} = {0, NPhi - 1}
               /\ Within1(OpenIdx(c), OpenIdx(d))
               /\ sGrid[d] # Null )
             => sGrid[d] \in Candidates(c)
        /\ \A s \in Candidates(c) :
             \E d \in DOMAIN sGrid :
               sGrid[d] = s /\ Within1(OpenIdx(c), OpenIdx(d))

\* C10 witness: on a 4 x 3 grid a cell at phi index 0 has a candidate that
\* its box holds only in the last phi bin, and a cell in the first bin of
\* the open axis does not have a surface of the last bin as a candidate.
C10_Witness ==
  /\ Registered
  /\ NPhi = 4
  /\ NOpen = 3
  /\ \E c \in DOMAIN sGrid :
       /\ Examined(c)
       /\ PhiIdx(c) = 0
       /\ \E d \in DOMAIN sGrid :
            /\ PhiIdx(d) = 3
            /\ Within1(OpenIdx(c), OpenIdx(d))
            /\ sGrid[d] \in Candidates(c)
            /\ \A d2 \in DOMAIN sGrid :
                 (Within1(OpenIdx(c), OpenIdx(d2)) /\ PhiIdx(d2) \in {0, 1})
                 => sGrid[d2] # sGrid[d]
  /\ \E c \in DOMAIN sGrid :
       /\ Examined(c)
       /\ OpenIdx(c) = 0
       /\ \E d \in DOMAIN sGrid :
            /\ OpenIdx(d) = 2
            /\ sGrid[d] # Null
            /\ sGrid[d] \notin Candidates(c)

====
